---- MODULE Spec2Model ----
(***************************************************************************)
(* Failover protocol of two Traders (trader.go) and two Sellers            *)
(* (seller/seller.go), started as in run.sh.                               *)
(*                                                                         *)
(* Every blocking network call is a suspension point: a task's position    *)
(* (hpc for a trader's heartbeat task, spc for a seller's request task)    *)
(* changes between calls, and the environment (process kill/restart,       *)
(* seller listener reachability) may act between.                          *)
(***************************************************************************)
EXTENDS Integers, Sequences, FiniteSets, TLC

\* Largest request sequence number a seller allocates in the model.
MaxReq == 1

\* Largest number of failures (a trader killed, a seller listener lost) in a run.
MaxFaults == 1

\* The same two bounds for the runs checked under fairness.
LiveMaxReq == 1
LiveMaxFaults == 1
RaceMaxReq == 1
DeliveryMaxReq == 1
DeliveryMaxFaults == 2

\* Largest sequence number in the runs of SendRequest against any responder
\* and of UpdateLeader on its own.
RetryMaxReq == 2
UpdMaxReq == 2

\* Largest number of failures in the runs of the traders' failover alone.
FailoverMaxFaults == 2

\* Largest sequence number and largest number of traders killed in the runs
\* where no trader restarts and the sellers stay reachable.
OutageMaxReq == 2
OutageMaxFaults == 2

Traders == {1, 2}
Sellers == {1, 2}

NoAddr == "none"

\* run.sh: -address of each trader
TraderAddress(t) == IF t = 1 THEN "localhost:8001" ELSE "localhost:8002"

\* run.sh: -peer of each trader
PeerAddress(t) == IF t = 1 THEN "localhost:8002" ELSE "localhost:8001"

\* run.sh: -post of each trader
TraderPost(t) == t

\* run.sh: -address of each seller
SellerAddress(s) == IF s = 1 THEN "localhost:8003" ELSE "localhost:8004"

\* run.sh: -trader of each seller
ConfiguredTrader(s) == IF s = 1 THEN "localhost:8001" ELSE "localhost:8002"

\* run.sh: -post of each seller
SellerPost(s) == s

\* NotifySellers: the static roster
sellerAddresses == <<"localhost:8003", "localhost:8004">>

TraderAddrs == {TraderAddress(t) : t \in Traders}

TraderAt(addr) == CHOOSE t \in Traders : TraderAddress(t) = addr

SellerAt(addr) == CHOOSE s \in Sellers : SellerAddress(s) = addr

Peer(t) == TraderAt(PeerAddress(t))

\* The goroutines that touch the shared fields of a process: a seller's
\* main goroutine (SendRequest), a seller's rpc.ServeConn goroutine for the
\* connection of trader `peer` (UpdateLeader), a trader's StartHeartbeat
\* goroutine (TakeOverLeadership) and a trader's rpc.ServeConn goroutine for
\* its peer's connection (ReceiveHeartbeat)
\* (numbered 1, 2, ... in this order)
SendG(s) == s
UpdG(s, t) == 2 + 2 * (s - 1) + t
BeatG(t) == 6 + t
RecvG(t) == 8 + t

Goroutines ==
    {SendG(s) : s \in Sellers} \cup {UpdG(s, t) : s \in Sellers, t \in Traders}
       \cup {BeatG(t) : t \in Traders} \cup {RecvG(t) : t \in Traders}

\* the goroutines of the process listening at address a
GoroutinesAt(a) ==
    {SendG(s) : s \in {r \in Sellers : SellerAddress(r) = a}}
       \cup {UpdG(s, t) : s \in {r \in Sellers : SellerAddress(r) = a}, t \in Traders}
       \cup {BeatG(t) : t \in {u \in Traders : TraderAddress(u) = a}}
       \cup {RecvG(t) : t \in {u \in Traders : TraderAddress(u) = a}}

\* the process goroutine g belongs to
Owner(g) ==
    CHOOSE a \in TraderAddrs \cup {SellerAddress(s) : s \in Sellers} :
        g \in GoroutinesAt(a)

\* Seller.RequestLock and Trader.HeartbeatMu, numbered likewise
RequestLock(s) == s
HeartbeatMu(t) == 2 + t
Mutexes == {RequestLock(s) : s \in Sellers} \cup {HeartbeatMu(t) : t \in Traders}
NoHolder == 0

VARIABLES
    up,          \* up[t]: trader process t is running and listening
    sellerReach, \* sellerReach[s]: seller s's RPC listener can be reached
    faults,      \* number of failures injected so far
    wireHb,      \* wireHb[t]: a heartbeat that a killed process of trader t
                 \* had written to its connection is not served yet
    wireUpd,     \* wireUpd[t]: the sellers for which a LeaderUpdate that a
                 \* killed process of trader t had written is not served yet
    IsLeader,    \* Trader.IsLeader
    Heartbeat,   \* Trader.Heartbeat
    hpc,         \* position of trader t's heartbeat task: "wait" (ticker),
                 \* "call"/"called"/"callerr" (heartbeat sent / served /
                 \* broken), "notify" (before rpc.Dial of a roster entry),
                 \* "ncall"/"nreply"/"ncallerr" (LeaderUpdate sent / served /
                 \* broken)
    nidx,        \* NotifySellers: index of the roster entry being notified
    attempts,    \* history: roster addresses tried by trader t's latest broadcast
    notifyRes,   \* history: outcome of trader t's latest notification of seller s
    TraderAddr,  \* Seller.TraderAddr
    RequestID,   \* Seller.RequestID
    spc,         \* position of seller s's request task: "idle" (ticker),
                 \* "allocated", "dialing", "calling", "callerr", "backoff"
    reqID,       \* SendRequest: local reqID
    target,      \* SendRequest: address of the connection being made / used
    reply,       \* responses written by the trader for the call in flight
    issued,      \* history: sequence numbers allocated by SendRequest
    outstanding, \* history: sequence numbers allocated and not yet acknowledged
    lastUpd,     \* history: the latest UpdateLeader call served by seller s
    executed,    \* history: <<t, s, n>> for which trader t ran ReceiveRequest
    gpc,         \* position of each goroutine in its accesses to shared fields
    mu           \* holder of each sync.Mutex

vars == <<up, sellerReach, faults, wireHb, wireUpd,
          IsLeader, Heartbeat, hpc, nidx, attempts,
          notifyRes, TraderAddr, RequestID, spc, reqID, target, reply, issued,
          outstanding, lastUpd, executed, gpc, mu>>

auxVars == <<lastUpd, executed, gpc, mu>>
traderVars == <<up, IsLeader, Heartbeat, hpc, nidx, attempts, notifyRes>>
sellerVars == <<TraderAddr, RequestID, spc, reqID, target, reply, issued,
                outstanding, auxVars>>
envVars == <<sellerReach, faults, wireHb, wireUpd>>

----------------------------------------------------------------------------
(* Pure parts of the handlers *)

\* trader.go main: IsLeader: *id == 1
InitialLeader(t) == t = 1

\* SendRequest: the Request built from the seller's fields and reqID
MakeRequest(s, id) ==
    [SellerID |-> s, Post |-> SellerPost(s), Item |-> "apples",
     Quantity |-> 10, RequestID |-> id]

\* Variant: only an authoritative trader marks the request processed
ReceiveRequestLeaderOnly(t, req) ==
    [RequestID |-> req.RequestID, Status |-> "Success", Processed |-> IsLeader[t]]

\* Trader.ReceiveRequest: the response written for req by trader t
ReceiveRequest(t, req) ==
    [RequestID |-> req.RequestID, Status |-> "Success", Processed |-> TRUE]

\* Variant: the handler replies without recording the sender as alive
ReceiveHeartbeatKeeps(old, sender) == [Heartbeat |-> old, reply |-> "Alive"]

\* Trader.ReceiveHeartbeat: new Heartbeat flag and the reply
ReceiveHeartbeat(old, sender) == [Heartbeat |-> TRUE, reply |-> "Alive"]

\* Variant: the counter is read but not incremented
NoIncrement(id) == id

\* SendRequest: s.RequestID++
NextRequestID(id) == id + 1

\* Variant: any response marked processed ends the loop
AcknowledgedAnyID(res, id) == res.Processed

\* SendRequest: the success test on a response
Acknowledged(res, id) == res.Processed /\ res.RequestID = id

\* Variant: SendRequest returns after a failed attempt
GiveUp == "idle"

\* SendRequest: after a failed dial, a failed call or a response that does
\* not acknowledge the request the loop sleeps and goes round again
AfterFailedAttempt == "backoff"

\* Variant: the loop dials the address given at startup
DialConfigured(s) == ConfiguredTrader(s)

\* SendRequest: the address dialled at the head of the retry loop
DialTarget(s) == TraderAddr[s]

\* Variant: an update naming the address already believed is refused
UpdateLeaderRejectsSame(addr, id, newLeaderAddr) ==
    [TraderAddr |-> newLeaderAddr, RequestID |-> id,
     reply |-> "Leader updated successfully",
     err |-> IF addr = newLeaderAddr THEN "leader unchanged" ELSE "nil"]

\* Variant: an update restarts the seller's sequence counter
UpdateLeaderResetsCounter(addr, id, newLeaderAddr) ==
    [TraderAddr |-> newLeaderAddr, RequestID |-> 0,
     reply |-> "Leader updated successfully", err |-> "nil"]

\* Seller.UpdateLeader: new fields of the seller, the reply and the error
UpdateLeader(addr, id, newLeaderAddr) ==
    [TraderAddr |-> newLeaderAddr, RequestID |-> id,
     reply |-> "Leader updated successfully", err |-> "nil"]

\* Variant: the flag is left as it was
KeepFlag(old) == old

\* Variant: the flag is flipped on every takeover
ToggleFlag(old) == ~old

\* TakeOverLeadership: t.IsLeader = true
TakeOverFlag(old) == TRUE

\* Variant: a seller that could not be notified is tried again at once
RetryIndex(i, ok) == IF ok THEN i + 1 ELSE i

\* NotifySellers: the range loop moves to the next roster entry, after a
\* delivered update and after a continue alike
NextIndex(i, ok) == i + 1

\* Variant: the trader announces its peer's address
AnnouncePeer(t) == PeerAddress(t)

\* TakeOverLeadership: the address handed to NotifySellers
AnnouncedAddr(t) == TraderAddress(t)

\* Variant: every tick starts a SendRequest (go seller.SendRequest())
TickerAlways(s) == TRUE

\* seller main: SendRequest is called synchronously from the ticker loop
TickerReady(s) == spc[s] = "idle"

\* rpc.Dial to a trader address succeeds iff a trader listens there
Listening(addr) == \E t \in Traders : TraderAddress(t) = addr /\ up[t]

\* rpc.Dial / Call of trader t to its peer can succeed
PeerReachable(t) == up[Peer(t)]

NoUpdate == [addr |-> NoAddr, n |-> 0, err |-> "nil"]

----------------------------------------------------------------------------
Init ==
    /\ up = [t \in Traders |-> TRUE]
    /\ faults = 0
    /\ sellerReach = [s \in Sellers |-> TRUE]
    /\ wireHb = [t \in Traders |-> FALSE]
    /\ wireUpd = [t \in Traders |-> {}]
    /\ IsLeader = [t \in Traders |-> InitialLeader(t)]
    /\ Heartbeat = [t \in Traders |-> FALSE]
    /\ hpc = [t \in Traders |-> "wait"]
    /\ nidx = [t \in Traders |-> 0]
    /\ attempts = [t \in Traders |-> <<>>]
    /\ notifyRes = [t \in Traders |-> [s \in Sellers |-> "none"]]
    /\ TraderAddr = [s \in Sellers |-> ConfiguredTrader(s)]
    /\ RequestID = [s \in Sellers |-> 0]
    /\ spc = [s \in Sellers |-> "idle"]
    /\ reqID = [s \in Sellers |-> 0]
    /\ target = [s \in Sellers |-> NoAddr]
    /\ reply = [s \in Sellers |-> <<>>]
    /\ issued = [s \in Sellers |-> <<>>]
    /\ outstanding = [s \in Sellers |-> {}]
    /\ lastUpd = [s \in Sellers |-> NoUpdate]
    /\ executed = {}
    /\ gpc = [g \in Goroutines |-> "idle"]
    /\ mu = [m \in Mutexes |-> NoHolder]

----------------------------------------------------------------------------
(* Trader: heartbeat task *)

\* TakeOverLeadership up to the call of NotifySellers
TakeOverLeadership(t) ==
    /\ IsLeader' = [IsLeader EXCEPT ![t] = TakeOverFlag(IsLeader[t])]
    /\ hpc' = [hpc EXCEPT ![t] = "notify"]
    /\ nidx' = [nidx EXCEPT ![t] = 1]
    /\ attempts' = [attempts EXCEPT ![t] = <<>>]

\* Variant: a trader that is already authoritative does not announce again
TakeOverOnce(t) ==
    IF IsLeader[t] THEN UNCHANGED <<IsLeader, hpc, nidx, attempts>> ELSE TakeOverLeadership(t)

\* What SendHeartbeat does when rpc.Dial fails
OnDialFailure(t) == TakeOverLeadership(t)

\* Variant: a failed call is only logged
LogCallFailure(t) ==
    /\ hpc' = [hpc EXCEPT ![t] = "wait"]
    /\ UNCHANGED <<IsLeader, nidx, attempts>>

\* What SendHeartbeat does when client.Call fails
OnCallFailure(t) == TakeOverLeadership(t)

\* StartHeartbeat tick, SendHeartbeat up to the result of rpc.Dial
SendHeartbeat(t) ==
    /\ up[t] /\ hpc[t] = "wait"
    /\ IF PeerReachable(t)
          THEN /\ hpc' = [hpc EXCEPT ![t] = "call"]
               /\ UNCHANGED <<IsLeader, nidx, attempts>>
          ELSE OnDialFailure(t)
    /\ UNCHANGED <<up, Heartbeat, notifyRes, sellerVars, envVars>>

\* Trader.ReceiveHeartbeat run by trader p's rpc.ServeConn goroutine for a
\* request its peer has sent: the caller is waiting in client.Call, or the
\* process that sent it has died (and may have been started again)
HandleHeartbeat(p) ==
    /\ up[p]
    /\ \/ /\ hpc[Peer(p)] = "call"
          /\ hpc' = [hpc EXCEPT ![Peer(p)] = "called"]
          /\ UNCHANGED wireHb
       \/ /\ wireHb[Peer(p)]
          /\ wireHb' = [wireHb EXCEPT ![Peer(p)] = FALSE]
          /\ UNCHANGED hpc
    /\ Heartbeat' = [Heartbeat EXCEPT
            ![p] = ReceiveHeartbeat(Heartbeat[p], Peer(p)).Heartbeat]
    /\ UNCHANGED <<up, IsLeader, nidx, attempts, notifyRes, sellerVars,
                   sellerReach, faults, wireUpd>>

\* SendHeartbeat: client.Call("Trader.ReceiveHeartbeat") returns, with the
\* reply or with an error
HeartbeatReturn(t) ==
    /\ up[t] /\ hpc[t] \in {"called", "callerr"}
    /\ IF hpc[t] = "called"
          THEN /\ hpc' = [hpc EXCEPT ![t] = "wait"]
               /\ UNCHANGED <<IsLeader, nidx, attempts>>
          ELSE OnCallFailure(t)
    /\ UNCHANGED <<up, Heartbeat, notifyRes, sellerVars, envVars>>

\* Seller.UpdateLeader run by seller s: the handler's writes
ServeUpdateLeader(s, newLeaderAddr) ==
    LET r == UpdateLeader(TraderAddr[s], RequestID[s], newLeaderAddr)
    IN  /\ TraderAddr' = [TraderAddr EXCEPT ![s] = r.TraderAddr]
        /\ RequestID' = [RequestID EXCEPT ![s] = r.RequestID]

\* the roster entry trader t's NotifySellers loop is at
NotifiedSeller(t) == SellerAt(sellerAddresses[nidx[t]])

\* NotifySellers: the iteration for the current roster entry ends (a
\* delivered update, or a log line and continue) and the loop goes on
NotifyNext(t, ok) ==
    /\ notifyRes' = [notifyRes EXCEPT
            ![t][NotifiedSeller(t)] = IF ok THEN "ok" ELSE "failed"]
    /\ IF NextIndex(nidx[t], ok) <= Len(sellerAddresses)
          THEN /\ nidx' = [nidx EXCEPT ![t] = NextIndex(nidx[t], ok)]
               /\ hpc' = [hpc EXCEPT ![t] = "notify"]
          ELSE /\ nidx' = [nidx EXCEPT ![t] = 0]
               /\ hpc' = [hpc EXCEPT ![t] = "wait"]

\* NotifySellers: rpc.Dial(sellerAddr) returns; on success the request of
\* client.Call("Seller.UpdateLeader", newLeaderAddr) is sent
NotifyDial(t) ==
    /\ up[t] /\ hpc[t] = "notify"
    /\ attempts' = [attempts EXCEPT ![t] = Append(@, sellerAddresses[nidx[t]])]
    /\ IF sellerReach[NotifiedSeller(t)]
          THEN /\ hpc' = [hpc EXCEPT ![t] = "ncall"]
               /\ UNCHANGED <<nidx, notifyRes>>
          ELSE NotifyNext(t, FALSE)
    /\ UNCHANGED <<up, IsLeader, Heartbeat, sellerVars, envVars>>

\* Seller.UpdateLeader run by seller s's rpc.ServeConn goroutine for a
\* request trader t has sent: t is waiting in client.Call, or the process
\* that sent it has died (and may have been started again)
HandleUpdateLeader(s, t) ==
    /\ \/ /\ hpc[t] = "ncall" /\ NotifiedSeller(t) = s
          /\ hpc' = [hpc EXCEPT ![t] = "nreply"]
          /\ UNCHANGED wireUpd
       \/ /\ s \in wireUpd[t]
          /\ wireUpd' = [wireUpd EXCEPT ![t] = @ \ {s}]
          /\ UNCHANGED hpc
    /\ ServeUpdateLeader(s, AnnouncedAddr(t))
    /\ UNCHANGED <<up, IsLeader, Heartbeat, nidx, attempts, notifyRes, spc,
                   reqID, target, reply, issued, outstanding, auxVars,
                   sellerReach, faults, wireHb>>

\* NotifySellers: client.Call("Seller.UpdateLeader") returns, with the reply
\* or with an error
NotifyReturn(t) ==
    /\ up[t] /\ hpc[t] \in {"nreply", "ncallerr"}
    /\ NotifyNext(t, hpc[t] = "nreply")
    /\ UNCHANGED <<up, IsLeader, Heartbeat, attempts, sellerVars, envVars>>

\* Trader.NotifySellers: the steps of the loop over the roster
NotifySellers(t) == NotifyDial(t) \/ NotifyReturn(t)

----------------------------------------------------------------------------
(* Trader: request handler *)

\* Trader.ReceiveRequest serving the call of seller s
HandleRequest(t, s) ==
    /\ up[t]
    /\ spc[s] = "calling" /\ target[s] = TraderAddress(t) /\ reply[s] = <<>>
    /\ reply' = [reply EXCEPT
                    ![s] = Append(@, ReceiveRequest(t, MakeRequest(s, reqID[s])))]
    /\ UNCHANGED <<traderVars, envVars, TraderAddr, RequestID, spc, reqID,
                   target, issued, outstanding, auxVars>>

----------------------------------------------------------------------------
(* Seller: request task *)

\* seller main ticker fires; SendRequest allocates the sequence number under
\* RequestLock and builds req
Tick(s, maxReq) ==
    /\ TickerReady(s)
    /\ RequestID[s] < maxReq /\ Len(issued[s]) < maxReq
    /\ LET id == NextRequestID(RequestID[s])
       IN  /\ RequestID' = [RequestID EXCEPT ![s] = id]
           /\ reqID' = [reqID EXCEPT ![s] = id]
           /\ issued' = [issued EXCEPT ![s] = Append(@, id)]
           /\ outstanding' = [outstanding EXCEPT ![s] = @ \cup {id}]
    /\ spc' = [spc EXCEPT ![s] = "allocated"]
    /\ UNCHANGED <<traderVars, envVars, TraderAddr, target, reply, auxVars>>

\* SendRequest: rpc.Dial returns
DialDone(s) ==
    /\ spc[s] = "dialing"
    /\ IF Listening(target[s])
          THEN /\ spc' = [spc EXCEPT ![s] = "calling"]
               /\ UNCHANGED target
          ELSE /\ spc' = [spc EXCEPT ![s] = AfterFailedAttempt]
               /\ target' = [target EXCEPT ![s] = NoAddr]
    /\ UNCHANGED <<traderVars, envVars, TraderAddr, RequestID, reqID,
                   reply, issued, outstanding, auxVars>>

\* SendRequest: client.Call returns a response
CallReturn(s) ==
    /\ spc[s] = "calling" /\ reply[s] # <<>>
    /\ spc' = [spc EXCEPT ![s] =
                  IF Acknowledged(Head(reply[s]), reqID[s])
                     THEN "idle" ELSE AfterFailedAttempt]
    /\ outstanding' = [outstanding EXCEPT ![s] =
                  IF Acknowledged(Head(reply[s]), reqID[s]) THEN @ \ {reqID[s]} ELSE @]
    /\ target' = [target EXCEPT ![s] = NoAddr]
    /\ reply' = [reply EXCEPT ![s] = <<>>]
    /\ UNCHANGED <<traderVars, envVars, TraderAddr, RequestID, reqID,
                   issued, auxVars>>

\* SendRequest: client.Call returns an error
CallError(s) ==
    /\ spc[s] = "callerr"
    /\ spc' = [spc EXCEPT ![s] = AfterFailedAttempt]
    /\ target' = [target EXCEPT ![s] = NoAddr]
    /\ reply' = [reply EXCEPT ![s] = <<>>]
    /\ UNCHANGED <<traderVars, envVars, TraderAddr, RequestID, reqID,
                   issued, outstanding, auxVars>>

\* SendRequest: head of the loop, reached from the allocation or when
\* time.Sleep(5s) ends: rpc.Dial starts and reads s.TraderAddr
DialStart(s) ==
    /\ spc[s] \in {"allocated", "backoff"}
    /\ spc' = [spc EXCEPT ![s] = "dialing"]
    /\ target' = [target EXCEPT ![s] = DialTarget(s)]
    /\ UNCHANGED <<traderVars, envVars, TraderAddr, RequestID, reqID,
                   reply, issued, outstanding, auxVars>>

----------------------------------------------------------------------------
(* Environment *)

\* kill-trader1.sh / pkill: the process dies. A call made to it that its
\* handler has not served yet breaks (client.Call returns an error). A call
\* whose handler has returned is answered when the response was written
\* before the kill (got, ack: client.Call returns it, at part_001 line 65 and
\* at trader.go line 82) and breaks when the kill fell between the handler's
\* return and the write. A request the process has written and that is not
\* served yet stays in the receiver's connection (sent) or is lost with it
Kill(t, maxFaults) ==
    /\ up[t]
    /\ faults < maxFaults
    /\ faults' = faults + 1
    /\ up' = [up EXCEPT ![t] = FALSE]
    /\ IsLeader' = [IsLeader EXCEPT ![t] = FALSE]
    /\ Heartbeat' = [Heartbeat EXCEPT ![t] = FALSE]
    /\ \E ack \in BOOLEAN :
          hpc' = [u \in Traders |->
                    IF u = t THEN "wait"
                    ELSE IF hpc[u] = "call" THEN "callerr"
                    ELSE IF hpc[u] = "called" /\ ~ack THEN "callerr"
                    ELSE hpc[u]]
    /\ nidx' = [nidx EXCEPT ![t] = 0]
    /\ \E sent \in BOOLEAN :
          /\ wireHb' = [u \in Traders |->
                          IF u = t THEN wireHb[t] \/ (sent /\ hpc[t] = "call")
                                   ELSE FALSE]
          /\ wireUpd' = [wireUpd EXCEPT
                  ![t] = IF sent /\ hpc[t] = "ncall"
                            THEN @ \cup {NotifiedSeller(t)} ELSE @]
    /\ attempts' = [attempts EXCEPT ![t] = <<>>]
    /\ notifyRes' = [notifyRes EXCEPT ![t] = [s \in Sellers |-> "none"]]
    /\ \E got \in SUBSET {s \in Sellers : reply[s] # <<>>} :
          spc' = [s \in Sellers |->
                    IF spc[s] = "calling" /\ target[s] = TraderAddress(t)
                                         /\ s \notin got
                       THEN "callerr" ELSE spc[s]]
    /\ UNCHANGED <<sellerReach, TraderAddr, RequestID, reqID, target, reply,
                   issued, outstanding, auxVars>>

\* run.sh line of trader t again: main builds the Trader and starts its
\* goroutines; the requests of the old process stay where they are
Restart(t) ==
    /\ ~up[t]
    /\ up' = [up EXCEPT ![t] = TRUE]
    /\ IsLeader' = [IsLeader EXCEPT ![t] = InitialLeader(t)]
    /\ hpc' = [hpc EXCEPT ![t] = "wait"]
    /\ nidx' = [nidx EXCEPT ![t] = 0]
    /\ UNCHANGED <<Heartbeat, attempts, notifyRes, sellerVars, envVars>>

\* seller s is cut off: its listener cannot be reached and the connections
\* made to it break, with the requests in them. A call the seller has not
\* served yet breaks (client.Call returns an error, trader.go lines
\* 186-188). A call whose handler has returned is answered when the reply
\* was written before the cut (got: client.Call at trader.go line 185
\* returns it and line 191 logs the notification) and breaks when the cut
\* fell between the handler's return and the write
SellerUnreachable(s, maxFaults) ==
    /\ sellerReach[s]
    /\ faults < maxFaults
    /\ faults' = faults + 1
    /\ sellerReach' = [sellerReach EXCEPT ![s] = FALSE]
    /\ \E got \in SUBSET {t \in Traders : hpc[t] = "nreply"} :
          hpc' = [t \in Traders |->
                    IF hpc[t] \in {"ncall", "nreply"} /\ NotifiedSeller(t) = s
                                                     /\ t \notin got
                       THEN "ncallerr" ELSE hpc[t]]
    /\ wireUpd' = [t \in Traders |-> wireUpd[t] \ {s}]
    /\ UNCHANGED <<up, IsLeader, Heartbeat, nidx, attempts, notifyRes,
                   sellerVars, wireHb>>

SellerReachable(s) ==
    /\ ~sellerReach[s]
    /\ sellerReach' = [sellerReach EXCEPT ![s] = TRUE]
    /\ UNCHANGED <<traderVars, faults, wireHb, wireUpd, sellerVars>>

----------------------------------------------------------------------------
Next ==
    \/ \E t \in Traders : SendHeartbeat(t)
    \/ \E t \in Traders : HeartbeatReturn(t)
    \/ \E t \in Traders : HandleHeartbeat(t)
    \/ \E t \in Traders : NotifyDial(t)
    \/ \E s \in Sellers, t \in Traders : HandleUpdateLeader(s, t)
    \/ \E t \in Traders : NotifyReturn(t)
    \/ \E t \in Traders, s \in Sellers : HandleRequest(t, s)
    \/ \E s \in Sellers : Tick(s, MaxReq)
    \/ \E s \in Sellers : DialDone(s)
    \/ \E s \in Sellers : CallReturn(s)
    \/ \E s \in Sellers : CallError(s)
    \/ \E s \in Sellers : DialStart(s)
    \/ \E t \in Traders : Kill(t, MaxFaults)
    \/ \E t \in Traders : Restart(t)
    \/ \E s \in Sellers : SellerUnreachable(s, MaxFaults)
    \/ \E s \in Sellers : SellerReachable(s)

Spec == Init /\ [][Next]_vars

----------------------------------------------------------------------------
(* The runs in which a killed trader stays down, under fair scheduling:    *)
(* the tickers keep firing, a started call or sleep ends, a running        *)
(* trader serves the calls it accepted.                                    *)

LiveNext ==
    \/ \E t \in Traders : SendHeartbeat(t)
    \/ \E t \in Traders : HeartbeatReturn(t)
    \/ \E t \in Traders : HandleHeartbeat(t)
    \/ \E t \in Traders : NotifyDial(t)
    \/ \E s \in Sellers, t \in Traders : HandleUpdateLeader(s, t)
    \/ \E t \in Traders : NotifyReturn(t)
    \/ \E t \in Traders, s \in Sellers : HandleRequest(t, s)
    \/ \E s \in Sellers : Tick(s, LiveMaxReq)
    \/ \E s \in Sellers : DialDone(s)
    \/ \E s \in Sellers : CallReturn(s)
    \/ \E s \in Sellers : CallError(s)
    \/ \E s \in Sellers : DialStart(s)
    \/ \E t \in Traders : Kill(t, LiveMaxFaults)
    \/ \E s \in Sellers : SellerUnreachable(s, LiveMaxFaults)
    \/ \E s \in Sellers : SellerReachable(s)

Fairness ==
    /\ \A t \in Traders : WF_vars(SendHeartbeat(t))
    /\ \A t \in Traders : WF_vars(HeartbeatReturn(t))
    /\ \A t \in Traders : WF_vars(HandleHeartbeat(t))
    /\ \A t \in Traders : WF_vars(NotifySellers(t))
    /\ \A s \in Sellers, t \in Traders : WF_vars(HandleUpdateLeader(s, t))
    /\ \A t \in Traders, s \in Sellers : WF_vars(HandleRequest(t, s))
    /\ \A s \in Sellers : WF_vars(Tick(s, LiveMaxReq))
    /\ \A s \in Sellers : WF_vars(DialDone(s))
    /\ \A s \in Sellers : WF_vars(CallReturn(s))
    /\ \A s \in Sellers : WF_vars(CallError(s))
    /\ \A s \in Sellers : WF_vars(DialStart(s))

LiveSpec == Init /\ [][LiveNext]_vars /\ Fairness

\* the fair runs in which the sellers' listeners stay reachable and the
\* traders may all be killed
OutageNext ==
    \/ \E t \in Traders : SendHeartbeat(t)
    \/ \E t \in Traders : HeartbeatReturn(t)
    \/ \E t \in Traders : HandleHeartbeat(t)
    \/ \E t \in Traders : NotifyDial(t)
    \/ \E s \in Sellers, t \in Traders : HandleUpdateLeader(s, t)
    \/ \E t \in Traders : NotifyReturn(t)
    \/ \E t \in Traders, s \in Sellers : HandleRequest(t, s)
    \/ \E s \in Sellers : Tick(s, OutageMaxReq)
    \/ \E s \in Sellers : DialDone(s)
    \/ \E s \in Sellers : CallReturn(s)
    \/ \E s \in Sellers : CallError(s)
    \/ \E s \in Sellers : DialStart(s)
    \/ \E t \in Traders : Kill(t, OutageMaxFaults)

OutageFairness ==
    /\ \A t \in Traders : WF_vars(SendHeartbeat(t))
    /\ \A t \in Traders : WF_vars(HeartbeatReturn(t))
    /\ \A t \in Traders : WF_vars(HandleHeartbeat(t))
    /\ \A t \in Traders : WF_vars(NotifySellers(t))
    /\ \A s \in Sellers, t \in Traders : WF_vars(HandleUpdateLeader(s, t))
    /\ \A t \in Traders, s \in Sellers : WF_vars(HandleRequest(t, s))
    /\ \A s \in Sellers : WF_vars(Tick(s, OutageMaxReq))
    /\ \A s \in Sellers : WF_vars(DialDone(s))
    /\ \A s \in Sellers : WF_vars(CallReturn(s))
    /\ \A s \in Sellers : WF_vars(CallError(s))
    /\ \A s \in Sellers : WF_vars(DialStart(s))

OutageSpec == Init /\ [][OutageNext]_vars /\ OutageFairness

----------------------------------------------------------------------------
(* Seller.UpdateLeader on its own: the seller's fields are drawn from the  *)
(* values they take, and the handler is served with any trader address.    *)

UpdInit ==
    /\ up = [t \in Traders |-> TRUE]
    /\ faults = 0
    /\ sellerReach = [s \in Sellers |-> TRUE]
    /\ wireHb = [t \in Traders |-> FALSE]
    /\ wireUpd = [t \in Traders |-> {}]
    /\ IsLeader = [t \in Traders |-> InitialLeader(t)]
    /\ Heartbeat = [t \in Traders |-> FALSE]
    /\ hpc = [t \in Traders |-> "wait"]
    /\ nidx = [t \in Traders |-> 0]
    /\ attempts = [t \in Traders |-> <<>>]
    /\ notifyRes = [t \in Traders |-> [s \in Sellers |-> "none"]]
    /\ TraderAddr \in [Sellers -> TraderAddrs]
    /\ RequestID \in [Sellers -> 0..UpdMaxReq]
    /\ spc = [s \in Sellers |-> "idle"]
    /\ reqID = RequestID
    /\ target = [s \in Sellers |-> NoAddr]
    /\ reply = [s \in Sellers |-> <<>>]
    /\ issued = [s \in Sellers |-> [i \in 1..RequestID[s] |-> i]]
    /\ outstanding = [s \in Sellers |-> {}]
    /\ lastUpd = [s \in Sellers |-> NoUpdate]
    /\ executed = {}
    /\ gpc = [g \in Goroutines |-> "idle"]
    /\ mu = [m \in Mutexes |-> NoHolder]

\* rpc.ServeConn dispatching Seller.UpdateLeader(newLeaderAddr) on seller s
UpdateLeaderCall(s, newLeaderAddr) ==
    /\ ServeUpdateLeader(s, newLeaderAddr)
    /\ lastUpd' = [lastUpd EXCEPT ![s] =
          [addr |-> newLeaderAddr,
           n |-> IF lastUpd[s].addr = newLeaderAddr THEN 2 ELSE 1,
           err |-> UpdateLeader(TraderAddr[s], RequestID[s], newLeaderAddr).err]]
    /\ UNCHANGED <<traderVars, envVars, spc, reqID, target, reply, issued,
                   outstanding, executed, gpc, mu>>

UpdNext == \E s \in Sellers, a \in TraderAddrs : UpdateLeaderCall(s, a)

UpdSpec == UpdInit /\ [][UpdNext]_vars

----------------------------------------------------------------------------
(* The failover protocol alone: the traders' heartbeat and notification    *)
(* tasks and the sellers' UpdateLeader handlers, the sellers' request      *)
(* tickers never firing.                                                   *)

FailoverNext ==
    \/ \E t \in Traders : SendHeartbeat(t)
    \/ \E t \in Traders : HeartbeatReturn(t)
    \/ \E t \in Traders : HandleHeartbeat(t)
    \/ \E t \in Traders : NotifyDial(t)
    \/ \E s \in Sellers, t \in Traders : HandleUpdateLeader(s, t)
    \/ \E t \in Traders : NotifyReturn(t)
    \/ \E t \in Traders : Kill(t, FailoverMaxFaults)
    \/ \E t \in Traders : Restart(t)
    \/ \E s \in Sellers : SellerUnreachable(s, FailoverMaxFaults)
    \/ \E s \in Sellers : SellerReachable(s)

FailoverSpec == Init /\ [][FailoverNext]_vars

\* the fair runs of the failover protocol in which a killed trader stays down
FailoverLiveNext ==
    \/ \E t \in Traders : SendHeartbeat(t)
    \/ \E t \in Traders : HeartbeatReturn(t)
    \/ \E t \in Traders : HandleHeartbeat(t)
    \/ \E t \in Traders : NotifyDial(t)
    \/ \E s \in Sellers, t \in Traders : HandleUpdateLeader(s, t)
    \/ \E t \in Traders : NotifyReturn(t)
    \/ \E t \in Traders : Kill(t, FailoverMaxFaults)
    \/ \E s \in Sellers : SellerUnreachable(s, FailoverMaxFaults)
    \/ \E s \in Sellers : SellerReachable(s)

\* the heartbeat tickers keep firing, a started call ends, the calls on
\* their way are served
FailoverFairness ==
    /\ \A t \in Traders : WF_vars(SendHeartbeat(t))
    /\ \A t \in Traders : WF_vars(HeartbeatReturn(t))
    /\ \A t \in Traders : WF_vars(HandleHeartbeat(t))
    /\ \A t \in Traders : WF_vars(NotifySellers(t))
    /\ \A s \in Sellers, t \in Traders : WF_vars(HandleUpdateLeader(s, t))

FailoverLiveSpec == Init /\ [][FailoverLiveNext]_vars /\ FailoverFairness

----------------------------------------------------------------------------
(* The system with a record of the executions of Trader.ReceiveRequest,    *)
(* in the runs where a killed trader stays down.                           *)

\* Trader.ReceiveRequest serving the call of seller s; the execution is noted
Execute(t, s) ==
    /\ up[t]
    /\ spc[s] = "calling" /\ target[s] = TraderAddress(t) /\ reply[s] = <<>>
    /\ reply' = [reply EXCEPT
                    ![s] = Append(@, ReceiveRequest(t, MakeRequest(s, reqID[s])))]
    /\ executed' = executed \cup {<<t, s, reqID[s]>>}
    /\ UNCHANGED <<traderVars, envVars, TraderAddr, RequestID, spc, reqID,
                   target, issued, outstanding, lastUpd, gpc, mu>>

DeliveryNext ==
    \/ \E t \in Traders : SendHeartbeat(t)
    \/ \E t \in Traders : HeartbeatReturn(t)
    \/ \E t \in Traders : HandleHeartbeat(t)
    \/ \E t \in Traders : NotifyDial(t)
    \/ \E s \in Sellers, t \in Traders : HandleUpdateLeader(s, t)
    \/ \E t \in Traders : NotifyReturn(t)
    \/ \E t \in Traders, s \in Sellers : Execute(t, s)
    \/ \E s \in Sellers : Tick(s, DeliveryMaxReq)
    \/ \E s \in Sellers : DialDone(s)
    \/ \E s \in Sellers : CallReturn(s)
    \/ \E s \in Sellers : CallError(s)
    \/ \E s \in Sellers : DialStart(s)
    \/ \E t \in Traders : Kill(t, DeliveryMaxFaults)

DeliverySpec == Init /\ [][DeliveryNext]_vars

----------------------------------------------------------------------------
(* Seller.SendRequest against any responder: the Response that client.Call *)
(* decodes is drawn from the values its fields can take.                    *)

Responses == [RequestID : 0..RetryMaxReq, Status : {"Success"}, Processed : BOOLEAN]

\* client.Call("Trader.ReceiveRequest") of seller s: the peer writes res
AnyResponse(s, res) ==
    /\ spc[s] = "calling" /\ Listening(target[s]) /\ reply[s] = <<>>
    /\ reply' = [reply EXCEPT ![s] = Append(@, res)]
    /\ UNCHANGED <<traderVars, envVars, TraderAddr, RequestID, spc, reqID,
                   target, issued, outstanding, auxVars>>

RetryNext ==
    \/ \E s \in Sellers : Tick(s, RetryMaxReq)
    \/ \E s \in Sellers : DialDone(s)
    \/ \E s \in Sellers, res \in Responses : AnyResponse(s, res)
    \/ \E s \in Sellers : CallReturn(s)
    \/ \E s \in Sellers : CallError(s)
    \/ \E s \in Sellers : DialStart(s)
    \/ \E t \in Traders : Kill(t, MaxFaults)
    \/ \E t \in Traders : Restart(t)

RetrySpec == Init /\ [][RetryNext]_vars

----------------------------------------------------------------------------
(* The accesses of the goroutines to the shared fields, one step per lock  *)
(* operation and per access. A goroutine at a position named after an      *)
(* access is performing that access.                                       *)

\* a string read while another goroutine assigns the field
TornAddr == "torn"

\* the values a read of s.TraderAddr can give: the field, or under a
\* concurrent unsynchronised write any of old, new and a torn string
ReadTraderAddr(s) ==
    {DialTarget(s)} \cup
       UNION {{TraderAddress(t), TornAddr} : t \in {u \in Traders : gpc[UpdG(s, u)] = "TraderAddr="}}

\* SendRequest: s.RequestLock.Lock()
SendLock(s) ==
    /\ gpc[SendG(s)] = "idle" /\ RequestID[s] < RaceMaxReq
    /\ mu[RequestLock(s)] = NoHolder
    /\ mu' = [mu EXCEPT ![RequestLock(s)] = SendG(s)]
    /\ gpc' = [gpc EXCEPT ![SendG(s)] = "RequestID++"]
    /\ UNCHANGED <<traderVars, envVars, TraderAddr, RequestID, spc, reqID,
                   target, reply, issued, outstanding, lastUpd, executed>>

\* SendRequest: s.RequestID++; reqID := s.RequestID; s.RequestLock.Unlock()
SendIncrement(s) ==
    /\ gpc[SendG(s)] = "RequestID++"
    /\ RequestID' = [RequestID EXCEPT ![s] = NextRequestID(@)]
    /\ reqID' = [reqID EXCEPT ![s] = NextRequestID(RequestID[s])]
    /\ mu' = [mu EXCEPT ![RequestLock(s)] = NoHolder]
    /\ gpc' = [gpc EXCEPT ![SendG(s)] = "Dial"]
    /\ UNCHANGED <<traderVars, envVars, TraderAddr, spc, target, reply,
                   issued, outstanding, lastUpd, executed>>

\* SendRequest: rpc.Dial("tcp", s.TraderAddr) evaluates its argument
SendDial(s) ==
    /\ gpc[SendG(s)] = "Dial"
    /\ \E a \in ReadTraderAddr(s) : target' = [target EXCEPT ![s] = a]
    /\ gpc' = [gpc EXCEPT ![SendG(s)] = "idle"]
    /\ UNCHANGED <<traderVars, envVars, TraderAddr, RequestID, spc, reqID,
                   reply, issued, outstanding, lastUpd, executed, mu>>

\* rpc.ServeConn of seller s dispatches UpdateLeader for trader t's call
UpdateLeaderStart(s, t) ==
    /\ gpc[UpdG(s, t)] = "idle"
    /\ gpc' = [gpc EXCEPT ![UpdG(s, t)] = "TraderAddr="]
    /\ UNCHANGED <<traderVars, envVars, TraderAddr, RequestID, spc, reqID,
                   target, reply, issued, outstanding, lastUpd, executed, mu>>

\* UpdateLeader: s.TraderAddr = newLeaderAddr
UpdateLeaderWrite(s, t) ==
    /\ gpc[UpdG(s, t)] = "TraderAddr="
    /\ ServeUpdateLeader(s, TraderAddress(t))
    /\ gpc' = [gpc EXCEPT ![UpdG(s, t)] = "idle"]
    /\ UNCHANGED <<traderVars, envVars, spc, reqID, target, reply, issued,
                   outstanding, lastUpd, executed, mu>>

\* SendHeartbeat of trader t fails and calls TakeOverLeadership
TakeOverStart(t) ==
    /\ gpc[BeatG(t)] = "idle"
    /\ gpc' = [gpc EXCEPT ![BeatG(t)] = "IsLeader="]
    /\ UNCHANGED <<traderVars, envVars, TraderAddr, RequestID, spc, reqID,
                   target, reply, issued, outstanding, lastUpd, executed, mu>>

\* TakeOverLeadership: t.IsLeader = true
TakeOverWrite(t) ==
    /\ gpc[BeatG(t)] = "IsLeader="
    /\ IsLeader' = [IsLeader EXCEPT ![t] = TakeOverFlag(@)]
    /\ gpc' = [gpc EXCEPT ![BeatG(t)] = "idle"]
    /\ UNCHANGED <<up, Heartbeat, hpc, nidx, attempts, notifyRes, envVars,
                   TraderAddr, RequestID, spc, reqID, target, reply, issued,
                   outstanding, lastUpd, executed, mu>>

\* ReceiveHeartbeat: t.HeartbeatMu.Lock()
ReceiveHeartbeatLock(t) ==
    /\ gpc[RecvG(t)] = "idle"
    /\ mu[HeartbeatMu(t)] = NoHolder
    /\ mu' = [mu EXCEPT ![HeartbeatMu(t)] = RecvG(t)]
    /\ gpc' = [gpc EXCEPT ![RecvG(t)] = "Heartbeat="]
    /\ UNCHANGED <<traderVars, envVars, TraderAddr, RequestID, spc, reqID,
                   target, reply, issued, outstanding, lastUpd, executed>>

\* ReceiveHeartbeat: t.Heartbeat = true; t.HeartbeatMu.Unlock()
ReceiveHeartbeatWrite(t) ==
    /\ gpc[RecvG(t)] = "Heartbeat="
    /\ Heartbeat' = [Heartbeat EXCEPT ![t] = ReceiveHeartbeat(@, Peer(t)).Heartbeat]
    /\ mu' = [mu EXCEPT ![HeartbeatMu(t)] = NoHolder]
    /\ gpc' = [gpc EXCEPT ![RecvG(t)] = "idle"]
    /\ UNCHANGED <<up, IsLeader, hpc, nidx, attempts, notifyRes, envVars,
                   TraderAddr, RequestID, spc, reqID, target, reply, issued,
                   outstanding, lastUpd, executed>>

RaceNext ==
    \/ \E s \in Sellers : SendLock(s)
    \/ \E s \in Sellers : SendIncrement(s)
    \/ \E s \in Sellers : SendDial(s)
    \/ \E s \in Sellers, t \in Traders : UpdateLeaderStart(s, t)
    \/ \E s \in Sellers, t \in Traders : UpdateLeaderWrite(s, t)
    \/ \E t \in Traders : TakeOverStart(t)
    \/ \E t \in Traders : TakeOverWrite(t)
    \/ \E t \in Traders : ReceiveHeartbeatLock(t)
    \/ \E t \in Traders : ReceiveHeartbeatWrite(t)

RaceSpec == Init /\ [][RaceNext]_vars

\* the access to a shared field that goroutine g is performing
NoAccess == [field |-> "none", node |-> NoAddr, write |-> FALSE]

Access(g) ==
    IF gpc[g] = "RequestID++" THEN [field |-> "RequestID", node |-> Owner(g), write |-> TRUE]
    ELSE IF gpc[g] = "Dial" THEN [field |-> "TraderAddr", node |-> Owner(g), write |-> FALSE]
    ELSE IF gpc[g] = "TraderAddr=" THEN [field |-> "TraderAddr", node |-> Owner(g), write |-> TRUE]
    ELSE IF gpc[g] = "IsLeader=" THEN [field |-> "IsLeader", node |-> Owner(g), write |-> TRUE]
    ELSE IF gpc[g] = "Heartbeat=" THEN [field |-> "Heartbeat", node |-> Owner(g), write |-> TRUE]
    ELSE NoAccess

Held(g) == {m \in Mutexes : mu[m] = g}

\* g and h access the same field at once, one of them writes, and no mutex
\* is held by both sides
Conflict(g, h) ==
    /\ g # h
    /\ Access(g) # NoAccess /\ Access(h) # NoAccess
    /\ Access(g).field = Access(h).field /\ Access(g).node = Access(h).node
    /\ Access(g).write \/ Access(h).write
    /\ Held(g) = {} \/ Held(h) = {}

----------------------------------------------------------------------------
(* Properties *)

Other(s) == CHOOSE o \in Sellers : o # s

RosterIndex(s) == CHOOSE i \in 1..Len(sellerAddresses) : sellerAddresses[i] = SellerAddress(s)

\* trader t is inside NotifySellers
InNotifySellers(t) == up[t] /\ hpc[t] \in {"notify", "ncall", "nreply", "ncallerr"}

\* seller s's UpdateLeader handler serves in this step the LeaderUpdate of
\* trader t, which is waiting in client.Call
ServingCall(t, s) ==
    /\ hpc[t] = "ncall" /\ nidx[t] = RosterIndex(s)
    /\ hpc'[t] = "nreply"

\* seller s's UpdateLeader handler serves in this step a LeaderUpdate that a
\* process of trader t wrote before it was killed
ServingLate(t, s) ==
    /\ s \in wireUpd[t] /\ s \notin wireUpd'[t]
    /\ sellerReach'[s]

\* a LeaderUpdate of trader t is served by seller s in this step
Delivering(t, s) == ServingCall(t, s) \/ ServingLate(t, s)

\* trader t's NotifySellers iteration for seller s ends in this step: the
\* dial failed, or the call returned with or without an error
IterationEnds(t, s) ==
    /\ up[t] /\ up'[t] /\ nidx[t] = RosterIndex(s)
    /\ hpc[t] \in {"notify", "nreply", "ncallerr"}
    /\ (hpc'[t] = "wait" \/ nidx'[t] # nidx[t])

\* C1: the sequence numbers a seller has allocated are strictly increasing
\* (so never reused), and its counter always stands at the last one
\* allocated: no failure, retry or LeaderUpdate moves it back.
C1_SequenceStrictlyIncreasing ==
    \A s \in Sellers :
        /\ \A i, j \in 1..Len(issued[s]) : i < j => issued[s][i] < issued[s][j]
        /\ RequestID[s] = IF issued[s] = <<>> THEN 0 ELSE issued[s][Len(issued[s])]

C1_Witness ==
    \E s \in Sellers :
        /\ Len(issued[s]) >= 2
        /\ TraderAddr[s] # ConfiguredTrader(s)
        /\ spc[s] = "backoff"

\* C2: every response a trader has written for a call carries Processed =
\* TRUE and the RequestID of the request, there is at most one per call, and
\* ReceiveRequest answers so for any trader, seller and sequence number.
C2_EveryRequestProcessed ==
    /\ \A s \in Sellers :
          /\ Len(reply[s]) <= 1
          /\ \A i \in 1..Len(reply[s]) :
                reply[s][i].Processed /\ reply[s][i].RequestID = reqID[s]
    /\ \A t \in Traders, s \in Sellers, id \in 0..MaxReq :
          LET res == ReceiveRequest(t, MakeRequest(s, id))
          IN  res.Processed /\ res.RequestID = id

C2_Witness ==
    \E s \in Sellers, t \in Traders :
        /\ spc[s] = "calling" /\ target[s] = TraderAddress(t) /\ reply[s] # <<>>
        /\ up[t] /\ ~IsLeader[t]
        /\ Head(reply[s]).Processed /\ Head(reply[s]).RequestID = reqID[s]
        /\ reqID[s] = MaxReq

\* C3: when trader t runs and its peer is down, t's IsLeader becomes true,
\* and a seller that is reachable gets t's address as its TraderAddr, unless
\* t is killed or the seller becomes unreachable first.
C3_TakeoverReachesSellers ==
    /\ \A t \in Traders :
          (up[t] /\ ~PeerReachable(t)) ~> (IsLeader[t] \/ ~up[t])
    /\ \A t \in Traders, s \in Sellers :
          (up[t] /\ ~PeerReachable(t) /\ sellerReach[s])
             ~> (TraderAddr[s] = TraderAddress(t) \/ ~up[t] \/ ~sellerReach[s])

C3_Witness ==
    \E t \in Traders :
        /\ up[t] /\ ~PeerReachable(t) /\ ~InitialLeader(t)
        /\ IsLeader[t] /\ hpc[t] = "wait"
        /\ \A s \in Sellers : notifyRes[t][s] = "ok" /\ TraderAddr[s] = TraderAddress(t)

\* C4: with trader 1 down, trader 2 up and seller 1 (configured for trader
\* 1) retrying request n at trader 1's address, every connection attempt to
\* trader 1 fails, and trader 2 eventually answers seller 1's request n with
\* Processed = TRUE and RequestID = n while n is still the last number
\* allocated, unless trader 2 is killed or seller 1 becomes unreachable.
C4_FailoverCompletesSameRequest ==
    /\ [][(spc[1] = "dialing" /\ spc'[1] # "dialing"
             /\ target[1] = TraderAddress(1) /\ ~up[1])
          => spc'[1] = "backoff"]_vars
    /\ \A n \in 1..LiveMaxReq :
          (/\ ~up[1] /\ up[2] /\ sellerReach[1]
           /\ TraderAddr[1] = TraderAddress(1)
           /\ spc[1] \in {"allocated", "dialing", "backoff", "callerr"}
           /\ reqID[1] = n)
             ~> (\/ /\ spc[1] = "calling" /\ target[1] = TraderAddress(2)
                    /\ reply[1] # <<>>
                    /\ Acknowledged(Head(reply[1]), n)
                    /\ reqID[1] = n /\ RequestID[1] = n
                 \/ ~up[2]
                 \/ ~sellerReach[1])

C4_Witness ==
    /\ ~up[1] /\ up[2] /\ IsLeader[2]
    /\ notifyRes[2][1] = "ok" /\ TraderAddr[1] = TraderAddress(2)
    /\ spc[1] = "calling" /\ target[1] = TraderAddress(2)
    /\ reply[1] # <<>> /\ Head(reply[1]).RequestID = RequestID[1]

\* C5: the second of two consecutive UpdateLeader calls with the same
\* address changes no field of the seller, and both calls return no error.
C5_UpdateLeaderIdempotent ==
    [][\A s \in Sellers :
          (lastUpd[s].n >= 1 /\ lastUpd'[s].n = 2 /\ lastUpd'[s].addr = lastUpd[s].addr)
             => /\ TraderAddr'[s] = TraderAddr[s]
                /\ TraderAddr'[s] = lastUpd[s].addr
                /\ RequestID'[s] = RequestID[s]
                /\ spc'[s] = spc[s] /\ reqID'[s] = reqID[s] /\ issued'[s] = issued[s]
                /\ lastUpd[s].err = "nil" /\ lastUpd'[s].err = "nil"]_vars

C5_Witness ==
    \E s \in Sellers :
        /\ lastUpd[s].n = 2
        /\ lastUpd[s].addr # ConfiguredTrader(s)
        /\ TraderAddr[s] = lastUpd[s].addr
        /\ RequestID[s] > 0

\* trader t runs with its peer down, its latest notification of seller s
\* failed and that of the other seller succeeded, and s still believes
\* another address
Stale(t, s) ==
    /\ up[t] /\ ~PeerReachable(t)
    /\ notifyRes[t][s] = "failed" /\ notifyRes[t][Other(s)] = "ok"
    /\ TraderAddr[s] # TraderAddress(t)

\* C6 as stated: after a partial broadcast the seller that was missed keeps
\* its stale address in every later step taken while the peer is still down.
C6_StaleForever ==
    [][\A t \in Traders, s \in Sellers :
          (Stale(t, s) /\ up'[t] /\ ~up'[Peer(t)]) => TraderAddr'[s] = TraderAddr[s]]_vars

\* C6 amended: a notification that reaches a seller sets its TraderAddr to
\* the trader's address; the seller that was missed keeps its stale address
\* until the trader notifies it again, which nothing else does for it, and
\* which the trader does on a later heartbeat tick (the peer being still
\* down) once the seller is reachable.
C6_StaleUntilNextTick ==
    /\ [][\A t \in Traders, s \in Sellers :
             /\ Delivering(t, s) => TraderAddr'[s] = TraderAddress(t)
             /\ (IterationEnds(t, s) /\ hpc[t] = "nreply")
                   => notifyRes'[t][s] = "ok"
             /\ (Stale(t, s) /\ TraderAddr'[s] # TraderAddr[s])
                   => (Delivering(t, s) /\ TraderAddr'[s] = TraderAddress(t))]_vars
    /\ \A t \in Traders, s \in Sellers :
          (Stale(t, s) /\ sellerReach[s])
             ~> (TraderAddr[s] = TraderAddress(t) \/ ~up[t] \/ ~sellerReach[s])

C6_Witness ==
    \E t \in Traders, s \in Sellers :
        /\ up[t] /\ ~PeerReachable(t) /\ hpc[t] = "wait"
        /\ notifyRes[t][s] = "ok" /\ notifyRes[t][Other(s)] = "ok"
        /\ TraderAddr[s] = TraderAddress(t)
        /\ ConfiguredTrader(s) # TraderAddress(t)
        /\ faults = 2 /\ sellerReach[s]

\* no trader is down, probing or notifying
StablePoint == \A t \in Traders : up[t] /\ hpc[t] = "wait"

\* C7: at a stable point exactly one running trader has IsLeader = TRUE.
C7_ExactlyOneLeader ==
    StablePoint => Cardinality({t \in Traders : up[t] /\ IsLeader[t]}) = 1

\* C8: a step that changes a seller's TraderAddr leaves its request task
\* where it is (position, connection being made, reqID) and its counter
\* unchanged; a delivered LeaderUpdate stores the announced address; and a
\* connection attempt that starts dials the TraderAddr of that moment.
C8_UpdateRedirectsWithoutRestart ==
    [][\A s \in Sellers :
          /\ TraderAddr'[s] # TraderAddr[s]
                => /\ spc'[s] = spc[s] /\ target'[s] = target[s]
                   /\ reqID'[s] = reqID[s] /\ RequestID'[s] = RequestID[s]
                   /\ reply'[s] = reply[s] /\ issued'[s] = issued[s]
          /\ \A t \in Traders :
                Delivering(t, s)
                   => /\ TraderAddr'[s] = TraderAddress(t)
                      /\ RequestID'[s] = RequestID[s]
          /\ (spc'[s] = "dialing" /\ spc[s] # "dialing")
                => target'[s] = TraderAddr[s]]_vars

C8_Witness ==
    \E s \in Sellers, t \in Traders :
        /\ spc[s] = "dialing" /\ target[s] # TraderAddr[s]
        /\ notifyRes[t][s] = "ok" /\ TraderAddr[s] = TraderAddress(t)
        /\ reqID[s] = RequestID[s] /\ RequestID[s] >= 1

\* C9: a seller has at most one sequence number allocated and not yet
\* acknowledged.
C9_AtMostOneOutstanding ==
    \A s \in Sellers : Cardinality(outstanding[s]) <= 1

C9_Witness ==
    \E s \in Sellers :
        /\ outstanding[s] = {reqID[s]} /\ spc[s] = "backoff"
        /\ Len(issued[s]) >= 2

\* C10: a heartbeat probe that fails, at rpc.Dial or at client.Call, is
\* followed in the same step by TakeOverLeadership: IsLeader is true and
\* NotifySellers starts at the head of the roster.
C10_SingleFailureTakesOver ==
    [][\A t \in Traders :
          (/\ up[t] /\ up'[t]
           /\ \/ hpc[t] = "wait" /\ hpc'[t] # "wait" /\ ~PeerReachable(t)
              \/ hpc[t] = "callerr" /\ hpc'[t] # "callerr")
             => (IsLeader'[t] /\ hpc'[t] = "notify" /\ nidx'[t] = 1)]_vars

C10_Witness ==
    \E t \in Traders :
        /\ up[t] /\ hpc[t] = "notify" /\ nidx[t] = 1
        /\ IsLeader[t] /\ ~InitialLeader(t)
        /\ Heartbeat[t] /\ ~up[Peer(t)]


\* C11: a heartbeat probe that is acknowledged sets the receiver's Heartbeat
\* flag and nothing else: in the step where the peer's ReceiveHeartbeat
\* serves the probe and in the step where the call returns without error,
\* IsLeader of both traders, every seller's TraderAddr and the notification
\* state are unchanged, and the sender goes back to waiting for its ticker;
\* ReceiveHeartbeat answers "Alive" and sets the flag whatever the flag and
\* the sender were.
C11_AckedProbeOnlySetsHeartbeat ==
    /\ [][\A t \in Traders :
             /\ (up[t] /\ up'[t] /\ hpc[t] = "call" /\ hpc'[t] = "called")
                   => /\ Heartbeat'[Peer(t)] = TRUE
                      /\ Heartbeat'[t] = Heartbeat[t]
                      /\ IsLeader' = IsLeader
                      /\ nidx' = nidx /\ notifyRes' = notifyRes
                      /\ attempts' = attempts
                      /\ sellerVars' = sellerVars
             /\ (up[t] /\ up'[t] /\ hpc[t] = "called" /\ hpc'[t] = "wait")
                   => /\ up' = up
                      /\ Heartbeat' = Heartbeat
                      /\ IsLeader' = IsLeader
                      /\ nidx' = nidx /\ notifyRes' = notifyRes
                      /\ attempts' = attempts
                      /\ sellerVars' = sellerVars]_vars
    /\ [](\A old \in BOOLEAN, t \in Traders :
             ReceiveHeartbeat(old, t) = [Heartbeat |-> TRUE, reply |-> "Alive"])

C11_Witness ==
    \E t \in Traders :
        /\ up[t] /\ up[Peer(t)] /\ hpc[t] = "wait"
        /\ Heartbeat[Peer(t)] /\ ~Heartbeat[t]
        /\ \A u \in Traders : IsLeader[u] = InitialLeader(u)
        /\ \A s \in Sellers : TraderAddr[s] = ConfiguredTrader(s)
        /\ \A u \in Traders, s \in Sellers : notifyRes[u][s] = "none"

\* C12: a heartbeat tick that finds the peer unreachable starts
\* TakeOverLeadership whether or not the trader is already authoritative;
\* a takeover leaves IsLeader true, changes no flag of a trader that was
\* already authoritative, starts the broadcast at the head of the roster,
\* and every notification it delivers carries the trader's own address.
C12_TakeOverIdempotent ==
    [][\A t \in Traders :
          /\ (up[t] /\ up'[t] /\ hpc[t] = "wait" /\ hpc'[t] # "wait" /\ ~PeerReachable(t))
                => hpc'[t] = "notify"
          /\ (up[t] /\ up'[t] /\ hpc[t] \in {"wait", "callerr"} /\ hpc'[t] = "notify")
                => /\ IsLeader'[t] /\ nidx'[t] = 1
                   /\ IsLeader[t] => (IsLeader' = IsLeader /\ Heartbeat' = Heartbeat)
                   /\ TraderAddr' = TraderAddr
          /\ \A s \in Sellers :
                Delivering(t, s) => TraderAddr'[s] = TraderAddress(t)]_vars

C12_Witness ==
    \E t \in Traders :
        /\ up[t] /\ IsLeader[t] /\ hpc[t] = "notify" /\ nidx[t] = 1
        /\ \A s \in Sellers : notifyRes[t][s] = "ok" /\ TraderAddr[s] = TraderAddress(t)

\* C13: NotifySellers is best effort. A broadcast tries the roster addresses
\* once each, in roster order; an iteration that ends, with a failed dial, a
\* failed call or a reply, moves to the next entry (or ends the broadcast
\* after the last one) and changes no seller's believed address, so an
\* update already delivered stays; it records its own outcome only and
\* leaves the notifying trader authoritative.
C13_BroadcastBestEffort ==
    /\ [](\A t \in Traders :
            /\ Len(attempts[t]) <= Len(sellerAddresses)
            /\ attempts[t] = SubSeq(sellerAddresses, 1, Len(attempts[t]))
            /\ InNotifySellers(t)
                  => /\ IsLeader[t]
                     /\ Len(attempts[t]) = IF hpc[t] = "notify" THEN nidx[t] - 1
                                                               ELSE nidx[t])
    /\ [][\A t \in Traders, s \in Sellers :
             /\ (/\ up[t] /\ up'[t] /\ hpc[t] = "notify" /\ nidx[t] = RosterIndex(s)
                 /\ (hpc'[t] # "notify" \/ nidx'[t] # nidx[t]))
                   => attempts'[t] = Append(attempts[t], SellerAddress(s))
             /\ IterationEnds(t, s)
                   => /\ IF RosterIndex(s) < Len(sellerAddresses)
                            THEN hpc'[t] = "notify" /\ nidx'[t] = nidx[t] + 1
                            ELSE hpc'[t] = "wait"
                      /\ IsLeader'[t]
                      /\ TraderAddr' = TraderAddr
                      /\ notifyRes'[t][Other(s)] = notifyRes[t][Other(s)]
                      /\ notifyRes'[t][s] = IF hpc[t] = "nreply" THEN "ok" ELSE "failed"]_vars

C13_Witness ==
    \E t \in Traders :
        /\ up[t] /\ hpc[t] = "wait" /\ IsLeader[t]
        /\ attempts[t] = sellerAddresses
        /\ notifyRes[t][SellerAt(sellerAddresses[1])] = "failed"
        /\ notifyRes[t][SellerAt(sellerAddresses[2])] = "ok"
        /\ TraderAddr[SellerAt(sellerAddresses[1])] # TraderAddress(t)
        /\ TraderAddr[SellerAt(sellerAddresses[2])] = TraderAddress(t)

\* C14: SendRequest for sequence number n returns only on a response with
\* Processed = true and RequestID = n. A failed dial, a failed call and a
\* response that is not processed or carries another number each lead to
\* the back-off and then to a new dial; while the request is pending the
\* seller's counter and the number being sent do not change.
C14_ReturnsOnlyOnMatchingAck ==
    [][\A s \in Sellers :
          /\ (spc[s] # "idle" /\ spc'[s] = "idle")
                => /\ spc[s] = "calling" /\ reply[s] # <<>>
                   /\ Head(reply[s]).Processed
                   /\ Head(reply[s]).RequestID = reqID[s]
          /\ (/\ spc[s] = "calling" /\ reply[s] # <<>> /\ spc'[s] # "calling"
              /\ ~(Head(reply[s]).Processed /\ Head(reply[s]).RequestID = reqID[s]))
                => spc'[s] \in {"backoff", "callerr"}
          /\ (spc[s] = "dialing" /\ ~Listening(target[s]) /\ spc'[s] # "dialing")
                => spc'[s] = "backoff"
          /\ (spc[s] = "callerr" /\ spc'[s] # "callerr") => spc'[s] = "backoff"
          /\ (spc[s] \in {"allocated", "backoff"} /\ spc'[s] # spc[s])
                => spc'[s] = "dialing"
          /\ spc[s] # "idle"
                => /\ reqID'[s] = reqID[s] /\ RequestID'[s] = RequestID[s]
                   /\ issued'[s] = issued[s]]_vars

C14_Witness ==
    \E s \in Sellers :
        /\ spc[s] = "calling" /\ reply[s] # <<>>
        /\ reqID[s] = 2 /\ RequestID[s] = 2 /\ issued[s] = <<1, 2>>
        /\ Head(reply[s]).Processed /\ Head(reply[s]).RequestID = 1

\* a seller's request task is inside SendRequest / a trader's heartbeat task
\* is inside SendHeartbeat
InSendRequest(s) == spc[s] # "idle"
InSendHeartbeat(t) == up[t] /\ hpc[t] # "wait"

\* the inbound handlers of seller s and of trader t are served now
UpdateLeaderServed(s) ==
    \A t \in Traders :
        ((hpc[t] = "ncall" /\ nidx[t] = RosterIndex(s)) \/ s \in wireUpd[t])
           => ENABLED (HandleUpdateLeader(s, t) /\ TraderAddr'[s] = TraderAddress(t))

TraderHandlersServed(t) ==
    /\ \A s \in Sellers :
          (up[t] /\ spc[s] = "calling" /\ target[s] = TraderAddress(t) /\ reply[s] = <<>>)
             => ENABLED HandleRequest(t, s)
    /\ (up[t] /\ (hpc[Peer(t)] = "call" \/ wireHb[Peer(t)]))
          => ENABLED (HandleHeartbeat(t) /\ Heartbeat'[t])

\* C15 as stated: while SendRequest is blocked or retrying the seller's next
\* periodic cycle can still start and UpdateLeader is served; while a
\* trader's heartbeat or notification call is pending its next tick can
\* still fire and its handlers are served.
C15_TimerNeverBlocked ==
    /\ \A s \in Sellers :
          /\ (InSendRequest(s) /\ RequestID[s] < OutageMaxReq)
                => ENABLED Tick(s, OutageMaxReq)
          /\ UpdateLeaderServed(s)
    /\ \A t \in Traders :
          /\ InSendHeartbeat(t) => ENABLED SendHeartbeat(t)
          /\ TraderHandlersServed(t)

\* C15 amended: a pending outbound call never keeps the inbound handlers of
\* the process from being served, but it holds up the periodic task that
\* made it: no new request cycle starts while SendRequest has not returned,
\* and no new SendHeartbeat starts while the previous one (with its
\* takeover broadcast) has not returned.
C15_HandlersServedTimerWaits ==
    /\ \A s \in Sellers :
          /\ InSendRequest(s) => ~ENABLED Tick(s, OutageMaxReq)
          /\ UpdateLeaderServed(s)
    /\ \A t \in Traders :
          /\ InSendHeartbeat(t) => ~ENABLED SendHeartbeat(t)
          /\ TraderHandlersServed(t)

C15_Witness ==
    \E s \in Sellers, t \in Traders :
        /\ spc[s] = "backoff" /\ RequestID[s] < OutageMaxReq
        /\ up[t] /\ hpc[t] = "ncall" /\ nidx[t] = RosterIndex(s) /\ sellerReach[s]
        /\ TraderAddr[s] # TraderAddress(t)
        /\ \E r \in Sellers :
              spc[r] = "calling" /\ target[r] = TraderAddress(t) /\ reply[r] = <<>>

\* C16: every access to shared mutable state is mutually exclusive: in no
\* reachable state do two goroutines access a seller's TraderAddr or
\* RequestID, or a trader's IsLeader or Heartbeat, at once with one of them
\* writing, outside a section protected by a mutex.
C16_NoConflictingAccess ==
    \A g \in Goroutines, h \in Goroutines : ~Conflict(g, h)

\* the trader at the address seller s believes in cannot be reached
BelievedUnreachable(s) == ~Listening(TraderAddr[s])

\* C17 as stated: the retry loop has no exit but success. While a request is
\* pending and the trader at the believed address is and stays unreachable,
\* no step ends SendRequest, the number being sent and the seller's counter
\* do not change, no further number is allocated, and the address the
\* seller retries at stays the same.
C17_SameAddressForever ==
    [][\A s \in Sellers :
          (/\ spc[s] # "idle" /\ BelievedUnreachable(s)
           /\ ~\E t \in Traders : TraderAddress(t) = TraderAddr'[s] /\ up'[t])
             => /\ spc'[s] # "idle"
                /\ reqID'[s] = reqID[s] /\ RequestID'[s] = RequestID[s]
                /\ issued'[s] = issued[s]
                /\ TraderAddr'[s] = TraderAddr[s]]_vars

\* C17 amended: while a request is pending and the trader at the believed
\* address is and stays unreachable, a step ends SendRequest only when
\* client.Call delivers a matching response that a trader had written
\* before (the call was made while that trader was running); in every
\* other position (allocation, dial, failed call, sleep, call not answered)
\* no step ends it. The number being sent and the seller's counter do not
\* change, no further number is allocated and every new dial goes to the
\* address believed at that moment; the believed address changes only when
\* the seller serves a LeaderUpdate that a trader sent before it died; and
\* if the request stays pending and the believed trader unreachable forever
\* the seller dials the believed address again and again, forever.
C17_RetriesForever ==
    /\ [][\A s \in Sellers :
             (/\ spc[s] # "idle" /\ BelievedUnreachable(s)
              /\ ~\E t \in Traders : TraderAddress(t) = TraderAddr'[s] /\ up'[t])
                => /\ spc'[s] = "idle"
                         => /\ spc[s] = "calling" /\ reply[s] # <<>>
                            /\ Acknowledged(Head(reply[s]), reqID[s])
                   /\ reqID'[s] = reqID[s] /\ RequestID'[s] = RequestID[s]
                   /\ issued'[s] = issued[s]
                   /\ TraderAddr'[s] # TraderAddr[s]
                         => \E t \in Traders :
                               /\ ~up[t] /\ ServingLate(t, s)
                               /\ TraderAddr'[s] = TraderAddress(t)
                   /\ (spc'[s] = "dialing" /\ spc[s] # "dialing")
                         => target'[s] = TraderAddr[s]
                   /\ (reply'[s] # <<>> /\ reply[s] = <<>>)
                         => \E t \in Traders :
                               up[t] /\ target[s] = TraderAddress(t)]_vars
    /\ \A s \in Sellers :
          <>[](spc[s] # "idle" /\ BelievedUnreachable(s))
             => /\ []<>(spc[s] = "dialing" /\ target[s] = TraderAddr[s])
                /\ []<>(spc[s] = "backoff")

C17_Witness ==
    \E s \in Sellers :
        /\ spc[s] = "backoff" /\ reqID[s] = 1 /\ issued[s] = <<1>>
        /\ \A t \in Traders : ~up[t]
        /\ TraderAddr[s] # ConfiguredTrader(s)

\* C18: delivery is at least once. A sequence number a seller has allocated
\* and no longer has outstanding was executed by some trader's
\* ReceiveRequest, and so was the number of a SendRequest that returns; a
\* trader serves a call whether or not the same (seller, n) was executed
\* before, by itself or by its peer.
C18_AtLeastOnce ==
    /\ [](\A s \in Sellers :
            /\ \A i \in 1..Len(issued[s]) :
                  issued[s][i] \notin outstanding[s]
                     => \E t \in Traders : <<t, s, issued[s][i]>> \in executed
            /\ \A t \in Traders :
                  (up[t] /\ spc[s] = "calling" /\ target[s] = TraderAddress(t)
                     /\ reply[s] = <<>>)
                     => ENABLED Execute(t, s))
    /\ [][\A s \in Sellers :
             (spc[s] # "idle" /\ spc'[s] = "idle")
                => \E t \in Traders : <<t, s, reqID[s]>> \in executed]_vars

\* the same request executed by both traders, then acknowledged
C18_Witness ==
    \E s \in Sellers :
        /\ spc[s] = "idle" /\ issued[s] = <<1>> /\ outstanding[s] = {}
        /\ \A t \in Traders : <<t, s, 1>> \in executed

\* C19: IsLeader never goes back to false in a running trader process: no
\* step of a trader that stays up clears the flag, whatever its peer does,
\* so a trader that took over is still authoritative when its peer is
\* reachable again and its probes are acknowledged.
C19_LeaderNeverDemoted ==
    [][\A t \in Traders :
          (up[t] /\ up'[t] /\ IsLeader[t]) => IsLeader'[t]]_vars

C19_Witness ==
    \E t \in Traders :
        /\ ~InitialLeader(t) /\ up[t] /\ IsLeader[t]
        /\ up[Peer(t)] /\ IsLeader[Peer(t)]
        /\ hpc[t] = "wait" /\ Heartbeat[Peer(t)] /\ Heartbeat[t]

\* C20: a trader announces only its own address and only once its IsLeader
\* is true: a broadcast is in progress only in a trader whose IsLeader is
\* true; a LeaderUpdate is sent only by a trader whose IsLeader is already
\* true, and one that outlives its sender is one that was so sent; and in
\* every step that changes a seller's TraderAddr the seller serves such a
\* LeaderUpdate and stores the address of the trader that sent it.
C20_AnnouncesOwnAddressAsLeader ==
    /\ [](\A t \in Traders : InNotifySellers(t) => IsLeader[t])
    /\ [][/\ \A t \in Traders :
               /\ (hpc[t] # "ncall" /\ hpc'[t] = "ncall")
                     => (up[t] /\ IsLeader[t] /\ hpc[t] = "notify")
               /\ wireUpd'[t] \ wireUpd[t] # {}
                     => /\ up[t] /\ IsLeader[t] /\ hpc[t] = "ncall"
                        /\ wireUpd'[t] = wireUpd[t] \cup {NotifiedSeller(t)}
          /\ \A s \in Sellers :
               TraderAddr'[s] # TraderAddr[s]
                  => \E t \in Traders :
                        /\ Delivering(t, s)
                        /\ ServingCall(t, s) => (up[t] /\ IsLeader[t])
                        /\ TraderAddr'[s] = TraderAddress(t)]_vars

C20_Witness ==
    \E s \in Sellers, t \in Traders :
        /\ TraderAddr[s] = TraderAddress(t) /\ TraderAddr[s] # ConfiguredTrader(s)
        /\ notifyRes[t][s] = "ok" /\ up[t] /\ IsLeader[t]
        /\ hpc[t] = "notify" /\ nidx[t] = RosterIndex(s) + 1

====
